---- MODULE Spec2Model ----
(***************************************************************************)
(* Model of ros/src/twist_controller/src/dbw_mpc.h: the DbwMpc node        *)
(* (fixed-rate loop run(), the four subscriber callbacks, the pipeline     *)
(* pass calculate()) and the free function polyfit.                        *)
(*                                                                         *)
(* Specifications:                                                   *)
(*   Spec      the node as it runs: transport deliveries, run() and the    *)
(*             callbacks that spinOnce() dispatches, shutdown requests.    *)
(*   LiveSpec  Spec with weak fairness on the steps of the loop thread.    *)
(*   SpecCalc  calculate() called on an object whose fields are drawn from *)
(*             bounded sets (no code of run() calls calculate()).          *)
(*   SpecFit   polyfit called on bounded arguments.                        *)
(*                                                                         *)
(* Doubles are modelled as small integers plus NaN.  A float32 message     *)
(* field is modelled as carrying the double stored into it.                *)
(***************************************************************************)
EXTENDS Integers, Sequences, FiniteSets, TLC

VARIABLES
    \* ---- fields of DbwMpc ----
    enabled, waypoint_set, pose_set, velocity_set,
    waypoints, pose, velocity,
    steer_value, throttle_value,
    \* ---- run(): position of the loop thread, and the roscpp side ----
    pc,               \* "while" | "spin" | "gate" | "steer" | "actuate" | "sleep" | "done" | "calc" | "fit"
    queue,            \* per subscription, the pending messages (queue size 1)
    todo,             \* callbacks spinOnce() still has to call
    shutdown,         \* a shutdown has been requested: ros::ok() is false
    \* ---- observation of the run ----
    gate_seen,        \* << >>, or the four flags as this iteration's gate read them
    tick_pubs,        \* commands published in this iteration, in order
    ever_pub,         \* some command has been published
    got,              \* channels whose callback has run at least once
    tick_solves,      \* number of mpc.Solve calls in this iteration / this pass
    last_solve,       \* <<>> or <<[steer, throttle]>>: result of the last Solve
    latest,           \* per channel, << >> or the last message that arrived
    \* ---- calculate(): locals ----
    cpc,              \* "idle" | "gather" | "transform" | "fit" | "project" | "solve" | "returned"
    closestWaypointIdx, pts, xs, eig, coeffs, delta,
    state,            \* << >> or <<the projected state handed to Solve>>
    wp_reads,         \* indices of waypoints.waypoints read by this pass
    eig_reads,        \* indices of xs/ys read through the Eigen maps
    proc,             \* "running" | "aborted" (assert) | "crashed" (fault)
    \* ---- polyfit called on its own ----
    fit_args, fit_result

objvars  == <<enabled, waypoint_set, pose_set, velocity_set, waypoints, pose,
              velocity, steer_value, throttle_value>>
loopvars == <<pc, queue, todo, shutdown>>
obsvars  == <<gate_seen, tick_pubs, ever_pub, got, tick_solves, last_solve>>
calcvars == <<cpc, closestWaypointIdx, pts, xs, eig, coeffs, delta, state,
              wp_reads, eig_reads, proc>>
histvars == <<latest>>
fitvars  == <<fit_args, fit_result>>
vars     == <<objvars, loopvars, obsvars, calcvars, fitvars, histvars>>

----------------------------------------------------------------------------
(* Doubles *)

NaN      == [nan |-> TRUE, val |-> 0]
Dbl(i)   == [nan |-> FALSE, val |-> i]
MaxVal   == 1
Doubles  == {Dbl(i) : i \in -MaxVal..MaxVal} \cup {NaN}
\* the steering angles the model distinguishes
Angles   == {Dbl(0), Dbl(1)}

\* x > 0 on doubles: every comparison with NaN is false
DGt0(d)  == (~d.nan) /\ d.val > 0
\* x <= 0 on doubles
DLe0(d)  == (~d.nan) /\ d.val <= 0
\* unary minus
DNeg(d)  == IF d.nan THEN NaN ELSE Dbl(0 - d.val)

----------------------------------------------------------------------------
(* Messages *)

Channels  == {"enabled", "waypoints", "pose", "velocity"}

Wp(x, y)  == [x |-> x, y |-> y]
Pose(x, y, psi) == [x |-> x, y |-> y, psi |-> psi]

\* default-constructed messages (ROS message constructors zero their fields)
NoLane    == << >>
ZeroPose  == Pose(0, 0, 0)
ZeroVel   == 0

\* payloads the transport delivers to the running node
BoolMsgs  == BOOLEAN
LaneMsgs  == { <<Wp(1, 0)>>, <<Wp(2, 0), Wp(3, 0)>> }
PoseMsgs  == { Pose(1, 0, 1) }
VelMsgs   == { 1 }

Payloads(ch) == CASE ch = "enabled"   -> BoolMsgs
                  [] ch = "waypoints" -> LaneMsgs
                  [] ch = "pose"      -> PoseMsgs
                  [] ch = "velocity"  -> VelMsgs

CMD_PERCENT == 2
CMD_TORQUE  == 3

SteeringCmd(angle) == [topic |-> "steering", enable |-> TRUE,
                       steering_wheel_angle_cmd |-> angle]
ThrottleCmd(v)     == [topic |-> "throttle", enable |-> TRUE,
                       pedal_cmd_type |-> CMD_PERCENT, pedal_cmd |-> v]
BrakeCmd(v)        == [topic |-> "brake", enable |-> TRUE,
                       pedal_cmd_type |-> CMD_TORQUE, pedal_cmd |-> v]

----------------------------------------------------------------------------
(* Construction *)

\* DbwMpc() : enabled(false) {}  -- the other bools and the two doubles are
\* left uninitialised: any value.  The message members are default
\* constructed.
\* DbwMpc() {}  -- enabled left uninitialised as well
Constructed_NoInit ==
    /\ enabled \in BOOLEAN
    /\ waypoint_set \in BOOLEAN
    /\ pose_set \in BOOLEAN
    /\ velocity_set \in BOOLEAN
    /\ waypoints = NoLane
    /\ pose = ZeroPose
    /\ velocity = ZeroVel
    /\ steer_value \in Angles
    /\ throttle_value \in Doubles

Constructed ==
    /\ enabled = FALSE
    /\ waypoint_set \in BOOLEAN
    /\ pose_set \in BOOLEAN
    /\ velocity_set \in BOOLEAN
    /\ waypoints = NoLane
    /\ pose = ZeroPose
    /\ velocity = ZeroVel
    /\ steer_value \in Angles
    /\ throttle_value \in Doubles

ObsInit ==
    /\ gate_seen = << >>
    /\ tick_pubs = << >>
    /\ ever_pub = FALSE
    /\ got = {}
    /\ tick_solves = 0
    /\ last_solve = << >>
    /\ latest = [ch \in Channels |-> << >>]

CalcIdle ==
    /\ cpc = "idle"
    /\ closestWaypointIdx = 0
    /\ pts = << >>
    /\ xs = << >>
    /\ eig = << >>
    /\ coeffs = << >>
    /\ delta = Dbl(0)
    /\ state = << >>
    /\ wp_reads = {}
    /\ eig_reads = {}
    /\ proc = "running"

FitIdle ==
    /\ fit_args = [n |-> 0, m |-> 0, order |-> 0]
    /\ fit_result = [status |-> "none", coeffs |-> << >>]

\* run() has advertised and subscribed and is about to test ros::ok()
Init ==
    /\ Constructed
    /\ pc = "while"
    /\ queue = [ch \in Channels |-> << >>]
    /\ todo = {}
    /\ shutdown = FALSE
    /\ ObsInit
    /\ CalcIdle
    /\ FitIdle

----------------------------------------------------------------------------
(* The transport *)

\* A message arrives on a subscription.  The subscriptions have queue size
\* 1: a message that arrives before the previous one was dispatched replaces
\* it.
\* the callback runs on the transport's thread as the message arrives
Deliver_Async(ch, m) ==
    /\ ~shutdown
    /\ pc # "done"
    /\ queue' = [queue EXCEPT ![ch] = <<m>>]
    /\ IF ch = "enabled"
         THEN /\ enabled' = m
              /\ UNCHANGED <<waypoint_set, pose_set, velocity_set, waypoints,
                             pose, velocity, steer_value, throttle_value>>
         ELSE UNCHANGED objvars
    /\ latest' = [latest EXCEPT ![ch] = <<m>>]
    /\ UNCHANGED <<pc, todo, shutdown, obsvars, calcvars, fitvars>>

Deliver(ch, m) ==
    /\ ~shutdown
    /\ pc # "done"
    /\ queue' = [queue EXCEPT ![ch] = <<m>>]
    /\ latest' = [latest EXCEPT ![ch] = <<m>>]
    /\ UNCHANGED <<objvars, pc, todo, shutdown, obsvars, calcvars, fitvars>>

Arrive == \E ch \in Channels : \E m \in Payloads(ch) : Deliver(ch, m)

\* An external shutdown request: ros::ok() is false from now on.
RequestShutdown ==
    /\ ~shutdown
    /\ pc # "done"
    /\ shutdown' = TRUE
    /\ UNCHANGED <<objvars, pc, queue, todo, obsvars, calcvars, fitvars, latest>>

----------------------------------------------------------------------------
(* The callbacks, called by spinOnce() on the loop thread *)

Dispatch(ch) ==
    /\ pc = "spin"
    /\ ch \in todo
    /\ queue[ch] # << >>
    /\ todo' = todo \ {ch}
    /\ queue' = [queue EXCEPT ![ch] = << >>]
    /\ got' = got \cup {ch}

\* a disable also forgets that waypoints were received
onEnabled_Reset ==
    /\ Dispatch("enabled")
    /\ enabled' = queue["enabled"][1]
    /\ waypoint_set' = (waypoint_set /\ queue["enabled"][1])
    /\ UNCHANGED <<pose_set, velocity_set, waypoints, pose,
                   velocity, steer_value, throttle_value>>
    /\ UNCHANGED <<pc, shutdown, gate_seen, tick_pubs, ever_pub, tick_solves,
                   last_solve, calcvars, fitvars, latest>>

onEnabled ==
    /\ Dispatch("enabled")
    /\ enabled' = queue["enabled"][1]
    /\ UNCHANGED <<waypoint_set, pose_set, velocity_set, waypoints, pose,
                   velocity, steer_value, throttle_value>>
    /\ UNCHANGED <<pc, shutdown, gate_seen, tick_pubs, ever_pub, tick_solves,
                   last_solve, calcvars, fitvars, latest>>

\* the new waypoints are appended to the stored ones
onWaypoints_Merge ==
    /\ Dispatch("waypoints")
    /\ waypoints' = waypoints \o queue["waypoints"][1]
    /\ waypoint_set' = TRUE
    /\ UNCHANGED <<enabled, pose_set, velocity_set, pose, velocity,
                   steer_value, throttle_value>>
    /\ UNCHANGED <<pc, shutdown, gate_seen, tick_pubs, ever_pub, tick_solves,
                   last_solve, calcvars, fitvars, latest>>

onWaypoints ==
    /\ Dispatch("waypoints")
    /\ waypoints' = queue["waypoints"][1]
    /\ waypoint_set' = TRUE
    /\ UNCHANGED <<enabled, pose_set, velocity_set, pose, velocity,
                   steer_value, throttle_value>>
    /\ UNCHANGED <<pc, shutdown, gate_seen, tick_pubs, ever_pub, tick_solves,
                   last_solve, calcvars, fitvars, latest>>

\* the callback stores the pose and leaves pose_set as it was
onPose_NoFlag ==
    /\ Dispatch("pose")
    /\ pose' = queue["pose"][1]
    /\ UNCHANGED <<enabled, waypoint_set, pose_set, velocity_set, waypoints,
                   velocity, steer_value, throttle_value>>
    /\ UNCHANGED <<pc, shutdown, gate_seen, tick_pubs, ever_pub, tick_solves,
                   last_solve, calcvars, fitvars, latest>>

onPose ==
    /\ Dispatch("pose")
    /\ pose' = queue["pose"][1]
    /\ pose_set' = TRUE
    /\ UNCHANGED <<enabled, waypoint_set, velocity_set, waypoints, velocity,
                   steer_value, throttle_value>>
    /\ UNCHANGED <<pc, shutdown, gate_seen, tick_pubs, ever_pub, tick_solves,
                   last_solve, calcvars, fitvars, latest>>

onVelocity ==
    /\ Dispatch("velocity")
    /\ velocity' = queue["velocity"][1]
    /\ velocity_set' = TRUE
    /\ UNCHANGED <<enabled, waypoint_set, pose_set, waypoints, pose,
                   steer_value, throttle_value>>
    /\ UNCHANGED <<pc, shutdown, gate_seen, tick_pubs, ever_pub, tick_solves,
                   last_solve, calcvars, fitvars, latest>>

----------------------------------------------------------------------------
(* run(): the loop *)

\* while (ros::ok()) { ros::spinOnce(); ...   spinOnce() calls the callbacks
\* that are available when it is entered.
LoopTest ==
    /\ pc = "while"
    /\ IF shutdown
         THEN /\ pc' = "done"
              /\ todo' = {}
         ELSE /\ pc' = "spin"
              /\ todo' = {ch \in Channels : queue[ch] # << >>}
    /\ gate_seen' = << >>
    /\ tick_pubs' = << >>
    /\ tick_solves' = 0
    /\ UNCHANGED <<objvars, queue, shutdown, ever_pub, got, last_solve,
                   calcvars, fitvars, latest>>

\* spinOnce() returns
SpinReturn ==
    /\ pc = "spin"
    /\ todo = {}
    /\ pc' = "gate"
    /\ UNCHANGED <<objvars, queue, todo, shutdown, obsvars, calcvars, fitvars, latest>>

\* if (enabled && velocity_set && waypoint_set && pose_set)
GateOpen_NoPose    == enabled /\ velocity_set /\ waypoint_set
GateOpen_NoEnabled == velocity_set /\ waypoint_set /\ pose_set
GateOpen == enabled /\ velocity_set /\ waypoint_set /\ pose_set

Gate ==
    /\ pc = "gate"
    /\ pc' = IF GateOpen THEN "steer" ELSE "sleep"
    /\ gate_seen' = <<enabled, velocity_set, waypoint_set, pose_set>>
    /\ UNCHANGED <<objvars, queue, todo, shutdown, tick_pubs, ever_pub, got,
                   tick_solves, last_solve, calcvars, fitvars, latest>>

\* steering_publisher.publish(steerCmd)
PublishSteering ==
    /\ pc = "steer"
    /\ tick_pubs' = Append(tick_pubs, SteeringCmd(steer_value))
    /\ ever_pub' = TRUE
    /\ pc' = "actuate"
    /\ UNCHANGED <<objvars, queue, todo, shutdown, gate_seen, got,
                   tick_solves, last_solve, calcvars, fitvars, latest>>

\* if (throttle_value>0) publish throttle else publish brake
DGe0(d) == (~d.nan) /\ d.val >= 0
ActuationCmd_Ge(v) == IF DGe0(v) THEN ThrottleCmd(v) ELSE BrakeCmd(v)
ActuationCmd(v) == IF DGt0(v) THEN ThrottleCmd(v) ELSE BrakeCmd(v)

PublishActuation ==
    /\ pc = "actuate"
    /\ tick_pubs' = Append(tick_pubs, ActuationCmd(throttle_value))
    /\ ever_pub' = TRUE
    /\ pc' = "sleep"
    /\ UNCHANGED <<objvars, queue, todo, shutdown, gate_seen, got,
                   tick_solves, last_solve, calcvars, fitvars, latest>>

\* loop_rate.sleep()
Sleep ==
    /\ pc = "sleep"
    /\ pc' = "while"
    /\ UNCHANGED <<objvars, queue, todo, shutdown, obsvars, calcvars, fitvars, latest>>

LoopStep == \/ LoopTest \/ onEnabled \/ onWaypoints \/ onPose \/ onVelocity
            \/ SpinReturn \/ Gate \/ PublishSteering \/ PublishActuation
            \/ Sleep

Next == \/ Arrive
        \/ RequestShutdown
        \/ LoopStep

Spec == Init /\ [][Next]_vars

\* The loop thread is scheduled: each of its steps eventually runs.  The
\* uninitialised throttle_value is one value of each branch of the dispatch;
\* it plays no part in whether a step is taken.
LiveInit == Init /\ throttle_value \in {Dbl(0), Dbl(1)}
LiveSpec == LiveInit /\ [][Next]_vars /\ WF_vars(LoopStep)


----------------------------------------------------------------------------
(* polyfit *)

\* assert(xvals.size() == yvals.size());
\* assert(order >= 1 && order <= xvals.size() - 1);
\* n, m: the sizes of xvals and yvals.  A failed assert aborts the process.
polyfit_offbyone(n, m, order) == n = m /\ order >= 1 /\ order <= n
polyfit_asserts(n, m, order) == n = m /\ order >= 1 /\ order <= n - 1

\* The least-squares solution is not computed: the model keeps the length of
\* the result (A has order + 1 columns) and lets its entries be any of Coefs.
Coefs == {0, 1}
FitResults(order) == { [i \in 1..(order + 1) |-> c] : c \in Coefs }

Aborted    == [status |-> "aborted", coeffs |-> << >>]
Solved(cs) == [status |-> "solved", coeffs |-> cs]
NotCalled  == [status |-> "none", coeffs |-> << >>]

\* the outcomes of a call: the process aborts, or a coefficient vector
polyfit(n, m, order) ==
    IF polyfit_asserts(n, m, order)
      THEN { Solved(cs) : cs \in FitResults(order) }
      ELSE { Aborted }

MaxN     == 5
MaxOrder == 4

\* polyfit is a free function: the object plays no part in a call
InitFit ==
    /\ Constructed
    /\ ~waypoint_set /\ ~pose_set /\ ~velocity_set
    /\ steer_value = Dbl(0) /\ throttle_value = Dbl(0)
    /\ pc = "fit"
    /\ queue = [ch \in Channels |-> << >>]
    /\ todo = {}
    /\ shutdown = FALSE
    /\ ObsInit
    /\ CalcIdle
    /\ fit_args \in [n : 0..MaxN, m : 0..MaxN, order : 0..MaxOrder]
    /\ fit_result = NotCalled

PolyfitCall ==
    /\ pc = "fit"
    /\ fit_result = NotCalled
    /\ fit_result' \in polyfit(fit_args.n, fit_args.m, fit_args.order)
    /\ UNCHANGED <<objvars, loopvars, obsvars, calcvars, fit_args, latest>>

NextFit == PolyfitCall

SpecFit == InitFit /\ [][NextFit]_vars

----------------------------------------------------------------------------
(* calculate() *)

WINDOW     == 3      \* i < closestWaypointIdx+3
MAP_SIZE   == 6      \* Eigen::Map<Eigen::VectorXd>(ptrx, 6)
FIT_ORDER  == 3      \* polyfit(..., 3)

\* cos and sin of an angle given in quarter turns
Cos(q) == CASE q % 4 = 0 -> 1 [] q % 4 = 1 -> 0 [] q % 4 = 2 -> -1 [] OTHER -> 0
Sin(q) == CASE q % 4 = 0 -> 0 [] q % 4 = 1 -> 1 [] q % 4 = 2 -> 0 [] OTHER -> -1

SqDist(w, p) == (w.x - p.x) * (w.x - p.x) + (w.y - p.y) * (w.y - p.y)

\* getClosestWaypoint (libwaypoint_follower): the 0-based index of the
\* waypoint nearest the pose, the first one among equals.
getClosestWaypoint(lane, p) ==
    CHOOSE i \in 0..(Len(lane) - 1) :
        /\ \A j \in 0..(Len(lane) - 1) : SqDist(lane[i + 1], p) <= SqDist(lane[j + 1], p)
        /\ \A j \in 0..(i - 1) : SqDist(lane[j + 1], p) > SqDist(lane[i + 1], p)

\* mpc.Solve (MPC.h): a control vector whose first two entries are the
\* steering angle and the signed actuation value.
Solve == [steer : Angles, throttle : Doubles]

\* what a read past the end of a buffer may yield when it does not fault
Garbage == {Wp(9, 9), Wp(-9, 0)}

MaxWp == 4
CalcLanes == { [i \in 1..n |-> Wp(i, k * i)] : n \in 1..MaxWp, k \in {0, 1} }
CalcPoses == { Pose(x, 0, q) : x \in 0..MaxWp, q \in {0, 1} }

\* calculate() is a public method that no code of run() calls: it is taken
\* on an object whose inputs have been received.
InitCalc ==
    /\ enabled = TRUE
    /\ waypoint_set = TRUE
    /\ pose_set = TRUE
    /\ velocity_set = TRUE
    /\ waypoints \in CalcLanes
    /\ pose \in CalcPoses
    /\ velocity \in {0, 1}
    /\ steer_value \in Angles
    /\ throttle_value \in Doubles
    /\ pc = "calc"
    /\ queue = [ch \in Channels |-> << >>]
    /\ todo = {}
    /\ shutdown = FALSE
    /\ ObsInit
    /\ CalcIdle
    /\ FitIdle

\* lines 117-121
CalcEnter ==
    /\ pc = "calc"
    /\ proc = "running"
    /\ cpc \in {"idle", "returned"}
    /\ cpc' = "gather"
    /\ closestWaypointIdx' = getClosestWaypoint(waypoints, pose)
    /\ pts' = << >>
    /\ xs' = << >>
    /\ eig' = << >>
    /\ coeffs' = << >>
    /\ delta' = Dbl(0)
    /\ state' = << >>
    /\ wp_reads' = {}
    /\ eig_reads' = {}
    /\ tick_solves' = 0
    /\ UNCHANGED <<objvars, loopvars, gate_seen, tick_pubs, ever_pub, got,
                   last_solve, proc, fitvars, latest>>

\* the values a sequence of k reads of buf at 0-based indices from..from+k-1
\* may yield: the element when it exists, whatever lies there otherwise
ReadRange(buf, from, k) ==
    { [i \in 1..k |-> IF from + i - 1 < Len(buf) THEN buf[from + i] ELSE g] :
        g \in Garbage }

\* lines 123-126: the loop reads waypoints.waypoints[i] with no test of i
\* against the size; a read past the end is undefined (a value, or a fault).
CalcGather ==
    /\ pc = "calc"
    /\ proc = "running"
    /\ cpc = "gather"
    /\ wp_reads' = closestWaypointIdx..(closestWaypointIdx + WINDOW - 1)
    /\ \/ /\ pts' \in ReadRange(waypoints, closestWaypointIdx, WINDOW)
          /\ cpc' = "transform"
          /\ UNCHANGED proc
       \/ /\ closestWaypointIdx + WINDOW > Len(waypoints)
          /\ proc' = "crashed"
          /\ UNCHANGED <<pts, cpc>>
    /\ UNCHANGED <<objvars, loopvars, obsvars, closestWaypointIdx, xs, eig,
                   coeffs, delta, eig_reads, fitvars, latest, state>>

\* lines 128-140: rotation by -psi and translation by -(px, py)
Local(w, p) ==
    [x |-> (w.x - p.x) * Cos(0 - p.psi) - (w.y - p.y) * Sin(0 - p.psi),
     y |-> (w.x - p.x) * Sin(0 - p.psi) + (w.y - p.y) * Cos(0 - p.psi)]

CalcTransform ==
    /\ pc = "calc"
    /\ proc = "running"
    /\ cpc = "transform"
    /\ xs' = [i \in 1..Len(pts) |-> Local(pts[i], pose)]
    /\ cpc' = "fit"
    /\ UNCHANGED <<objvars, loopvars, obsvars, closestWaypointIdx, pts, eig,
                   coeffs, delta, wp_reads, eig_reads, proc, fitvars, latest, state>>

\* lines 142-147: the maps view MAP_SIZE doubles from &xs[0] and &ys[0],
\* whatever the size of xs and ys; polyfit copies them (reads them all).
CalcFit ==
    /\ pc = "calc"
    /\ proc = "running"
    /\ cpc = "fit"
    /\ eig_reads' = 0..(MAP_SIZE - 1)
    /\ \/ /\ eig' \in ReadRange(xs, 0, MAP_SIZE)
          /\ \E r \in polyfit(MAP_SIZE, MAP_SIZE, FIT_ORDER) :
                IF r.status = "aborted"
                  THEN proc' = "aborted" /\ UNCHANGED <<coeffs, cpc>>
                  ELSE coeffs' = r.coeffs /\ cpc' = "project" /\ UNCHANGED proc
       \/ /\ MAP_SIZE > Len(xs)
          /\ proc' = "crashed"
          /\ UNCHANGED <<eig, coeffs, cpc>>
    /\ UNCHANGED <<objvars, loopvars, obsvars, closestWaypointIdx, pts, xs,
                   delta, wp_reads, fitvars, latest, state>>

\* double latency = 0.1;  double Lf = 2.67;
LATENCY_INV   == 10       \* latency = 1 / LATENCY_INV
LF_HUNDREDTHS == 267      \* Lf = LF_HUNDREDTHS / 100
\* v * delta * latency / Lf = (100 * v * delta) / ANGLE_UNITS
ANGLE_UNITS   == LATENCY_INV * LF_HUNDREDTHS

\* k * d and k + d for an integer k and a double d
DTimes(k, d) == IF d.nan THEN NaN ELSE Dbl(k * d.val)
DPlus(k, d)  == IF d.nan THEN NaN ELSE Dbl(k + d.val)

\* lines 151-158, for the entries that are rational in the inputs:
\*   delta     delta = -steer_value
\*   psi0      psi = delta
\*   epsi_inc  v * delta * latency / Lf, added to epsi, in 1/ANGLE_UNITS
\*   psi       psi + v * delta * latency / Lf, in 1/ANGLE_UNITS
\*   v         v + throttle_value * latency, in 1/LATENCY_INV
\* px, py and cte (cos and sin of an angle in radians) are not modelled.
Project_SteerInEpsi(steer, throttle, v) ==
    LET d == DNeg(steer) IN
    [delta    |-> d,
     psi0     |-> d,
     epsi_inc |-> DTimes(100 * v, steer),
     psi      |-> DTimes(ANGLE_UNITS + 100 * v, d),
     v        |-> DPlus(LATENCY_INV * v, throttle)]

Project(steer, throttle, v) ==
    LET d == DNeg(steer) IN
    [delta    |-> d,
     psi0     |-> d,
     epsi_inc |-> DTimes(100 * v, d),
     psi      |-> DTimes(ANGLE_UNITS + 100 * v, d),
     v        |-> DPlus(LATENCY_INV * v, throttle)]

\* lines 148-158: error estimation and latency compensation
CalcProject ==
    /\ pc = "calc"
    /\ proc = "running"
    /\ cpc = "project"
    /\ state' = <<Project(steer_value, throttle_value, velocity)>>
    /\ delta' = state'[1].delta
    /\ cpc' = "solve"
    /\ UNCHANGED <<objvars, loopvars, obsvars, closestWaypointIdx, pts, xs,
                   eig, coeffs, wp_reads, eig_reads, proc, fitvars, latest>>

\* lines 160-164
CalcSolve ==
    /\ pc = "calc"
    /\ proc = "running"
    /\ cpc = "solve"
    /\ \E vars0 \in Solve :
          /\ steer_value' = vars0.steer
          /\ throttle_value' = vars0.throttle
          /\ last_solve' = <<vars0>>
    /\ tick_solves' = tick_solves + 1
    /\ cpc' = "returned"
    /\ UNCHANGED <<enabled, waypoint_set, pose_set, velocity_set, waypoints,
                   pose, velocity>>
    /\ UNCHANGED <<loopvars, gate_seen, tick_pubs, ever_pub, got,
                   closestWaypointIdx, pts, xs, eig, coeffs, delta, wp_reads,
                   eig_reads, proc, fitvars, latest, state>>

NextCalc == \/ CalcEnter \/ CalcGather \/ CalcTransform \/ CalcFit
            \/ CalcProject \/ CalcSolve

SpecCalc == InitCalc /\ [][NextCalc]_vars

----------------------------------------------------------------------------
(* Properties of the running node (Spec) *)

AllFlags     == <<TRUE, TRUE, TRUE, TRUE>>
DataChannels == {"waypoints", "pose", "velocity"}
IsActuation(c) == c.topic \in {"throttle", "brake"}
IsSteering(c)  == c.topic = "steering"
Actuations   == SelectSeq(tick_pubs, IsActuation)
Steerings    == SelectSeq(tick_pubs, IsSteering)
\* the iteration has passed its gate and finished publishing
TickDone     == pc = "sleep" /\ gate_seen = AllFlags

\* C1: an iteration that has published a command, or is about to, read all
\* four of enabled, velocity_set, waypoint_set, pose_set as true at its gate;
\* an iteration whose gate read one of them as false has published nothing.
C1_GatedPublish ==
    /\ (tick_pubs # << >> \/ pc \in {"steer", "actuate"}) => gate_seen = AllFlags
    /\ (gate_seen # << >> /\ gate_seen # AllFlags) => tick_pubs = << >>

C1_Witness ==
    /\ Len(tick_pubs) = 2
    /\ gate_seen = AllFlags
    /\ got = Channels

C3_Original ==
    /\ TickDone => Len(Steerings) = 1
    /\ \A i \in 1..Len(Steerings) :
          /\ last_solve # << >>
          /\ Steerings[i] = SteeringCmd(last_solve[1].steer)

\* C4 (as stated): by the time a tick dispatches its commands, Solve has been
\* invoked exactly once in that tick, and the commands are that call's result.
C4_Original ==
    (pc \in {"steer", "actuate"} \/ tick_pubs # << >>) =>
        /\ tick_solves = 1
        /\ last_solve # << >>
        /\ last_solve[1] = [steer |-> steer_value, throttle |-> throttle_value]

\* C5 (as stated): as long as one of the waypoints, pose and velocity
\* channels has delivered no message, no command has been published.
C5_Original ==
    (~(DataChannels \subseteq got)) => (~ever_pub /\ tick_pubs = << >>)

\* C6: while the last processed enable message is enable=false, the current
\* tick has published nothing.
C6_DisabledIsIdle ==
    ("enabled" \in got /\ ~enabled) => (tick_pubs = << >> /\ pc \notin {"steer", "actuate"})

C6_Witness ==
    /\ "enabled" \in got
    /\ ~enabled
    /\ ever_pub
    /\ pc = "sleep"
    /\ gate_seen = <<FALSE, TRUE, TRUE, TRUE>>

\* the waypoints, pose and velocity callbacks have each run, and the last
\* enable message processed was enable=true
Ready == enabled /\ DataChannels \subseteq got

\* C7: under LiveSpec, whenever the node is Ready at a point where the
\* current iteration has published nothing, an iteration publishes its two
\* commands, unless a disable is processed or a shutdown is requested first.
C7_ReadyLeadsToActive ==
    (Ready /\ tick_pubs = << >>) ~> (Len(tick_pubs) = 2 \/ ~enabled \/ shutdown)

C7_Witness ==
    /\ Ready
    /\ Len(tick_pubs) = 2
    /\ ~shutdown
    /\ gate_seen = AllFlags

----------------------------------------------------------------------------
(* Properties of calculate() (SpecCalc) and polyfit (SpecFit) *)

\* the window of WINDOW waypoints from the nearest one runs past the end
InsufficientWindow == closestWaypointIdx + WINDOW > Len(waypoints)
PastGather == cpc \in {"transform", "fit", "project", "solve", "returned"}

\* C8 (as stated): calculate never reads a waypoint at an index >= the number
\* of stored waypoints, and a pass whose window runs past the end stops at
\* the gather step instead of going on.
C8_Original ==
    /\ \A i \in wp_reads : i < Len(waypoints)
    /\ (InsufficientWindow /\ cpc # "idle") => cpc \in {"gather", "returned"}

\* C9 (as stated): a call with order >= n - 1 is rejected and returns no
\* coefficients; a call is solved only when order < n - 1.
C9_Original ==
    fit_result.status # "none" =>
        /\ fit_args.order >= fit_args.n - 1 => fit_result = Aborted
        /\ fit_result.status = "solved" => fit_args.order < fit_args.n - 1

\* C9 (amended): a call with order > n - 1 is rejected and returns no
\* coefficients; a call is solved only when order <= n - 1.
C9_RejectsAboveNMinus1 ==
    fit_result.status # "none" =>
        /\ fit_args.order > fit_args.n - 1 => fit_result = Aborted
        /\ fit_result.status = "solved" => fit_args.order <= fit_args.n - 1

C9_Witness ==
    /\ fit_result.status = "solved"
    /\ fit_args.order = fit_args.n - 1
    /\ Len(fit_result.coeffs) = fit_args.order + 1

\* C10 (as stated): no failure of a pipeline stage ends the process, and a
\* pass whose waypoint window was insufficient calls no Solve (the tick is
\* skipped).
C10_Original ==
    /\ proc = "running"
    /\ (InsufficientWindow /\ PastGather) => (cpc = "returned" /\ tick_solves = 0)

----------------------------------------------------------------------------
(* Further properties of the running node (Spec) *)

\* |x| on doubles
DAbs(d) == IF d.nan THEN NaN ELSE Dbl(IF d.val < 0 THEN 0 - d.val ELSE d.val)

\* C11 (as stated): a brake command published for an actuation value <= 0
\* carries the absolute value of that value, which is never negative.
C11_Original ==
    \A i \in 1..Len(Actuations) :
        (Actuations[i].topic = "brake" /\ DLe0(throttle_value)) =>
            /\ Actuations[i].pedal_cmd = DAbs(throttle_value)
            /\ Actuations[i].pedal_cmd.val >= 0

\* C12 (as stated): once a shutdown has been requested, no step publishes a
\* command, whether it belongs to a new tick or to one already in progress.
C12_Original ==
    [][shutdown => Len(tick_pubs') <= Len(tick_pubs)]_vars

\* C13: a step taken while the loop is at its gate, in its publish steps or
\* in its sleep leaves every field of the object as the drain left it: a
\* message that arrives then waits in its subscription queue, and only a
\* callback called by spinOnce() changes a field.
C13_UpdatesOnlyAtDrain ==
    [][(pc # "spin" \/ todo' = todo) => objvars' = objvars]_vars

C13_Witness ==
    /\ pc = "actuate"
    /\ enabled
    /\ queue["enabled"] = <<FALSE>>
    /\ queue["waypoints"] # << >>
    /\ queue["waypoints"][1] # waypoints

\* C18: a command has been published only if an enable message has been
\* processed, and the iteration that publishes has enabled = true, the value
\* of the last enable message processed.
C18_NoCommandBeforeEnable ==
    /\ ever_pub => "enabled" \in got
    /\ (tick_pubs # << >> \/ pc \in {"steer", "actuate"}) =>
          (enabled /\ "enabled" \in got)

C18_Witness ==
    /\ ~ever_pub
    /\ got = DataChannels
    /\ waypoint_set /\ pose_set /\ velocity_set
    /\ pc = "sleep"
    /\ gate_seen = <<FALSE, TRUE, TRUE, TRUE>>

\* the step is the callback of channel ch
Called(ch) == pc = "spin" /\ ch \in todo /\ ch \notin todo'

\* C19: onEnabled changes only enabled; onWaypoints only waypoints and
\* waypoint_set; onPose only pose and pose_set; onVelocity only velocity and
\* velocity_set; the gate and the publish steps change no field; no step of
\* the loop or of a callback changes steer_value or throttle_value (only the
\* Solve step of calculate does).
C19_FrameEffects ==
    [][ /\ Called("enabled") =>
              UNCHANGED <<waypoint_set, pose_set, velocity_set, waypoints,
                          pose, velocity, steer_value, throttle_value>>
        /\ Called("waypoints") =>
              UNCHANGED <<enabled, pose_set, velocity_set, pose, velocity,
                          steer_value, throttle_value>>
        /\ Called("pose") =>
              UNCHANGED <<enabled, waypoint_set, velocity_set, waypoints,
                          velocity, steer_value, throttle_value>>
        /\ Called("velocity") =>
              UNCHANGED <<enabled, waypoint_set, pose_set, waypoints, pose,
                          steer_value, throttle_value>>
        /\ pc \in {"gate", "steer", "actuate"} => UNCHANGED objvars
        /\ (steer_value' # steer_value \/ throttle_value' # throttle_value)
              => cpc = "solve"
      ]_vars

C19_Witness ==
    /\ got = {"enabled", "waypoints"}
    /\ enabled
    /\ waypoints # NoLane
    /\ pose = ZeroPose /\ velocity = ZeroVel
    /\ ~pose_set /\ ~velocity_set
    /\ pc = "gate"

----------------------------------------------------------------------------
(* Further properties of calculate() (SpecCalc) *)

\* C15 (as stated): the vectors handed to polyfit have as many elements as
\* the local-frame points of the pass, in the same order, and no element
\* beyond the end of those sequences is read through them.
C15_Original ==
    cpc \in {"project", "solve", "returned"} =>
        /\ Len(eig) = Len(xs)
        /\ eig = xs
        /\ \A i \in eig_reads : i < Len(xs)

\* C16 (as stated): the number of waypoints gathered and transformed in a
\* pass is strictly greater than the degree of the fit.
C16_Original ==
    cpc \in {"fit", "project", "solve", "returned"} =>
        (Len(pts) > FIT_ORDER /\ Len(xs) > FIT_ORDER)

----------------------------------------------------------------------------
(* Latest value wins (Spec); latency compensation (SpecCalc) *)

Stored(ch) == CASE ch = "enabled"   -> enabled
                [] ch = "waypoints" -> waypoints
                [] ch = "pose"      -> pose
                [] ch = "velocity"  -> velocity

C17_Original ==
    (cpc = "solve" /\ state # << >>) =>
        /\ state[1].delta = steer_value
        /\ state[1].psi0 = state[1].delta
        /\ state[1].epsi_inc = DTimes(100 * velocity, state[1].delta)
        /\ state[1].psi = DTimes(ANGLE_UNITS + 100 * velocity, state[1].delta)
        /\ state[1].v = DPlus(LATENCY_INV * velocity, throttle_value)

\* C17 (amended): the delta of the projection is the negation of
\* steer_value; the rest as stated.
C17_HoldsNegatedSteering ==
    (cpc = "solve" /\ state # << >>) =>
        /\ state[1].delta.nan = steer_value.nan
        /\ state[1].delta.val = 0 - steer_value.val
        /\ state[1].psi0 = state[1].delta
        /\ state[1].epsi_inc = DTimes(100 * velocity, state[1].delta)
        /\ state[1].psi = DTimes(ANGLE_UNITS + 100 * velocity, state[1].delta)
        /\ state[1].v = DPlus(LATENCY_INV * velocity, throttle_value)

C17_Witness ==
    /\ cpc = "solve"
    /\ last_solve # << >>
    /\ steer_value = last_solve[1].steer
    /\ steer_value = Dbl(1)
    /\ velocity = 1
    /\ state[1].delta = Dbl(-1)
    /\ state[1].v = Dbl(LATENCY_INV + 1)

----------------------------------------------------------------------------
TypeOK ==
    /\ enabled \in BOOLEAN
    /\ pc \in {"while", "spin", "gate", "steer", "actuate", "sleep", "done",
              "calc", "fit"}
====
